---- MODULE Spec2Model ----
(***************************************************************************)
(* Model of the dashboard loop of SystemCLI (src/src/main.rs): one tick    *)
(* samples the host, folds the per-interface network counters into         *)
(* prev_network, draws four gauges and waits up to one second for input.   *)
(*                                                                         *)
(* Abstractions of the inputs (not of the code):                           *)
(*  - byte counters and memory sizes are naturals far below 2^53, so the   *)
(*    u64 -> f64 conversions of the code are exact and no u64 sum wraps;   *)
(*  - memory sizes are given in an arbitrary common unit: the f64 quotient *)
(*    used/total depends only on the ratio of the two;                     *)
(*  - cpu_usage (an f32) is given in tenths of a percent.                  *)
(***************************************************************************)
EXTENDS Integers, Naturals, Sequences, FiniteSets, TLC

(***************************************************************************)
(* IEEE-754 binary64 arithmetic on positive operands, round to nearest,    *)
(* ties to even.  A finite positive double is [m |-> bits, e |-> exp]:     *)
(* bits is the 53-bit significand, most significant bit first (bits[1] =   *)
(* 1), and the value is bits * 2^(e - 52).  Operands of F64Div are         *)
(* naturals below 2^22, so every intermediate fits a 32-bit integer.       *)
(***************************************************************************)
MantBits == 53

U16Max == 65535

Pow2(k) == <<1, 2, 4, 8, 16, 32, 64, 128, 256, 512, 1024, 2048, 4096, 8192,
             16384, 32768, 65536, 131072, 262144, 524288, 1048576, 2097152,
             4194304, 8388608>>[k + 1]

\* largest k >= 0 with d * 2^k <= n   (n >= d > 0)
ShiftDown(n, d) == CHOOSE k \in 0..22 : d * Pow2(k) <= n /\ n < d * Pow2(k + 1)

\* smallest k >= 0 with n * 2^k >= d   (0 < n <= d)
ShiftUp(n, d) ==
    CHOOSE k \in 0..22 : n * Pow2(k) >= d /\ (k = 0 \/ n * Pow2(k - 1) < d)

\* the 8 binary digits of a byte, most significant first
ByteBits(v) == [j \in 1..8 |-> (v \div Pow2(8 - j)) % 2]

\* the byte held in bits[i .. i+7]
ByteAt(bits, i) ==
    bits[i] * 128 + bits[i + 1] * 64 + bits[i + 2] * 32 + bits[i + 3] * 16
    + bits[i + 4] * 8 + bits[i + 5] * 4 + bits[i + 6] * 2 + bits[i + 7]

\* 56 further quotient bits of r/d (r < d), eight at a time, with the final
\* remainder
LongDiv(r, d) ==
    LET r1 == (r  * 256) % d
        r2 == (r1 * 256) % d
        r3 == (r2 * 256) % d
        r4 == (r3 * 256) % d
        r5 == (r4 * 256) % d
        r6 == (r5 * 256) % d
        r7 == (r6 * 256) % d
    IN  [bits |-> ByteBits((r  * 256) \div d) \o ByteBits((r1 * 256) \div d)
                  \o ByteBits((r2 * 256) \div d) \o ByteBits((r3 * 256) \div d)
                  \o ByteBits((r4 * 256) \div d) \o ByteBits((r5 * 256) \div d)
                  \o ByteBits((r6 * 256) \div d),
         rem  |-> r7]

\* bits + 1; the result is one bit longer when every bit was 1
IncBits(bits) ==
    LET n == Len(bits)
    IN  IF \A i \in 1..n : bits[i] = 1
        THEN [i \in 1..(n + 1) |-> IF i = 1 THEN 1 ELSE 0]
        ELSE LET p == CHOOSE i \in 1..n :
                          bits[i] = 0 /\ \A j \in (i + 1)..n : bits[j] = 1
             IN  [i \in 1..n |-> IF i < p THEN bits[i]
                                 ELSE IF i = p THEN 1 ELSE 0]

\* bits without its leading zeros (bits holds a 1)
StripZeros(bits) ==
    LET f == CHOOSE i \in 1..Len(bits) :
                 bits[i] = 1 /\ \A j \in 1..(i - 1) : bits[j] = 0
    IN  SubSeq(bits, f, Len(bits))

\* bits * k for a 53-bit significand and a natural k <= 255, as a bit
\* string without leading zeros: schoolbook multiplication on seven bytes
MulSmall(bits, k) ==
    LET B  == <<0, 0, 0>> \o bits
        v7 == ByteAt(B, 49) * k
        v6 == ByteAt(B, 41) * k + v7 \div 256
        v5 == ByteAt(B, 33) * k + v6 \div 256
        v4 == ByteAt(B, 25) * k + v5 \div 256
        v3 == ByteAt(B, 17) * k + v4 \div 256
        v2 == ByteAt(B, 9)  * k + v3 \div 256
        v1 == ByteAt(B, 1)  * k + v2 \div 256
    IN  StripZeros(ByteBits(v1 \div 256) \o ByteBits(v1 % 256)
                   \o ByteBits(v2 % 256) \o ByteBits(v3 % 256)
                   \o ByteBits(v4 % 256) \o ByteBits(v5 % 256)
                   \o ByteBits(v6 % 256) \o ByteBits(v7 % 256))

\* Round the exact value B * 2^(eTop - (Len(B) - 1)) (+ a nonzero tail when
\* sticky) to 53 bits; eTop is the exponent of B's leading bit.
RoundTo53(B, eTop, sticky) ==
    LET L      == Len(B)
        kept   == SubSeq(B, 1, MantBits)
        guard  == IF L > MantBits THEN B[MantBits + 1] ELSE 0
        rest   == sticky \/ \E i \in (MantBits + 2)..L : B[i] = 1
        up     == guard = 1 /\ (rest \/ kept[MantBits] = 1)
        inc    == IncBits(kept)
    IN  IF ~up THEN [m |-> kept, e |-> eTop]
        ELSE IF Len(inc) > MantBits
             THEN [m |-> SubSeq(inc, 1, MantBits), e |-> eTop + 1]
             ELSE [m |-> inc, e |-> eTop]

\* fl(u / t) for naturals 0 < u, t < 2^22 (both exactly representable)
F64Div(u, t) ==
    LET e  == IF u >= t THEN ShiftDown(u, t) ELSE 0 - ShiftUp(u, t)
        n  == IF u >= t THEN u ELSE u * Pow2(0 - e)
        d  == IF u >= t THEN t * Pow2(e) ELSE t
        q  == LongDiv(n - d, d)
    IN  RoundTo53(<<1>> \o q.bits, e, q.rem # 0)

\* fl(x * k) for a positive double x and a natural k <= 255
F64MulSmall(x, k) ==
    LET P == MulSmall(x.m, k)
    IN  RoundTo53(P, x.e + (Len(P) - MantBits), FALSE)

\* `x as u16` for a positive finite double: truncate toward zero, saturate
F64ToU16(x) ==
    LET nInt == x.e + 1
        P    == [i \in 1..16 |-> IF i <= 16 - nInt THEN 0
                                 ELSE x.m[i - (16 - nInt)]]
    IN  IF nInt <= 0 THEN 0
        ELSE IF nInt > 16 THEN U16Max
        ELSE ByteAt(P, 1) * 256 + ByteAt(P, 9)

\* main.rs:37  (used_mem as f64 / total_mem as f64 * 100.0) as u16
\*   0/0 is NaN and NaN as u16 is 0; x/0 is +inf and inf as u16 is 65535
MemPercent(used, total) ==
    IF total = 0 THEN (IF used = 0 THEN 0 ELSE U16Max)
    ELSE IF used = 0 THEN 0
    ELSE F64ToU16(F64MulSmall(F64Div(used, total), 100))


(***************************************************************************)
(* Inputs of the model.                                                    *)
(***************************************************************************)
\* number of ticks a behaviour may run
MaxTicks == 3

\* interface names reported by Networks
Ifaces == {"eth0", "lo"}

\* (received, transmitted) totals an interface may report
NetPairs == {<<1000, 200>>, <<1500, 250>>, <<2049000, 1024200>>}

\* no entry for a name: prev_network.get(name) is None, or the name is not
\* in networks.iter()
Absent == <<>>

NetSamples == [Ifaces -> NetPairs \cup {Absent}]

\* sys.global_cpu_usage(), in tenths of a percent
CpuTenths == {0 - 50, 734, 736, 1000, 1500}

\* (used_memory, total_memory); <<8, 16>> stands for 8e9 of 16e9 bytes
MemPairs == {<<8, 16>>, <<29, 100>>, <<2, 3>>, <<3, 2>>, <<0, 0>>, <<1, 0>>}

\* events event::read() may return: the quit key, another key, and two
\* events that are not key events
KeyQ == "q"

OtherEvents == {"key_x", "mouse", "resize"}

Events == {KeyQ} \cup OtherEvents

\* main.rs:100  the timeout of event::poll, in milliseconds
PollTimeoutMs == 1000

\* times into the wait, in milliseconds, at which an event may arrive
ArrivalTimes == {250}

\* number of events that may be pending at once in a burst of input
MaxInput == 2

\* the samples of the behaviours that study bursts of input
BurstCpu == {734}

BurstMem == {<<8, 16>>, <<3, 2>>}

VARIABLES
    pc,             \* position of main: sample, draw, poll, read, teardown,
                    \* done (main returned), panicked
    tick,           \* number of loop iterations started
    renders,        \* number of frames drawn
    cpu_usage,      \* main.rs:33, tenths of a percent
    total_mem,      \* main.rs:35
    used_mem,       \* main.rs:36
    mem_percent,    \* main.rs:37
    networks,       \* the counters reported by networks.iter() this tick
    prev_network,   \* main.rs:27
    prevs,          \* prev of main.rs:43-46 per interface this tick
    deltas,         \* (recv, sent) of main.rs:47-48 per interface this tick
    first_obs,      \* names for which prev_network.get(name) was None
    hist,           \* per name, since its first observation: the totals
                    \* reported then (first), the sums of its deltas (sum),
                    \* whether a tick did not report it (gap) and whether
                    \* its received / transmitted total ever fell (dec)
    download_speed, \* main.rs:39
    upload_speed,   \* main.rs:40
    gauges,         \* the arguments passed to Gauge::percent in the last draw
    last_event,     \* the last event returned by event::read()
    input,          \* the events delivered to the terminal and not yet read
    waited,         \* milliseconds the last event::poll took to return
    raw_mode,       \* terminal is in raw mode
    alt_screen,     \* terminal shows the alternate screen
    cursor_hidden,  \* the cursor is hidden
    result,         \* how main ended: none, ok, err, panic
    err_at          \* the call whose error main returned

vars == <<pc, tick, renders, cpu_usage, total_mem, used_mem, mem_percent,
          networks, prev_network, prevs, deltas, first_obs, hist, download_speed,
          upload_speed, gauges, last_event, input, waited, raw_mode, alt_screen,
          cursor_hidden, result, err_at>>

\* the locals of one loop iteration (main.rs:33-48)
localVars == <<cpu_usage, total_mem, used_mem, mem_percent, prevs, deltas,
               download_speed, upload_speed>>

sampleVars == <<localVars, networks, prev_network, first_obs, hist, tick>>

termVars == <<raw_mode, alt_screen, cursor_hidden>>

inputVars == <<input, waited>>

(***************************************************************************)
(* Pure parts of one tick.                                                 *)
(***************************************************************************)
\* a subtraction that does not floor at zero
SaturatingSub_Plain(a, b) == a - b

\* u64::saturating_sub
SaturatingSub(a, b) == IF a >= b THEN a - b ELSE 0

\* a baseline of zero for a name without an entry
Prev_ZeroDefault(map, name, data) ==
    IF map[name] = Absent THEN <<0, 0>> ELSE map[name]

\* main.rs:43-46  prev_network.get(name).copied().unwrap_or(current totals)
Prev(map, name, data) == IF map[name] = Absent THEN data ELSE map[name]

\* an insert that keeps the entry a name already has
Insert_KeepFirst(map, name, data) ==
    IF map[name] = Absent THEN [map EXCEPT ![name] = data] ELSE map

\* an insert that never lowers a stored total
Insert_KeepHigher(map, name, data) ==
    IF map[name] # Absent /\ data[1] < map[name][1]
    THEN map
    ELSE [map EXCEPT ![name] = data]

\* an insert into a map emptied of every other name
Insert_OnlyThis(map, name, data) ==
    [i \in Ifaces |-> IF i = name THEN data ELSE Absent]

\* main.rs:51  prev_network.insert(name, current totals)
Insert(map, name, data) == [map EXCEPT ![name] = data]

\* both sums fed with the received delta
AddSpeeds_RecvTwice(acc, recv, sent) == <<acc[1] + recv, acc[2] + recv>>

\* main.rs:49-50  the two += of one loop iteration
AddSpeeds(acc, recv, sent) == <<acc[1] + recv, acc[2] + sent>>

\* main.rs:42-52  the for loop over the names in S, starting from the
\* accumulator st = [map, speeds, prevs, deltas]
RECURSIVE NetLoop(_, _, _)
NetLoop(st, n, S) ==
    IF S = {} THEN st
    ELSE LET name == CHOOSE i \in S : TRUE
             data == n[name]
             prev == Prev(st.map, name, data)
             recv == SaturatingSub(data[1], prev[1])
             sent == SaturatingSub(data[2], prev[2])
         IN  NetLoop([map    |-> Insert(st.map, name, data),
                      speeds |-> AddSpeeds(st.speeds, recv, sent),
                      prevs  |-> [st.prevs EXCEPT ![name] = prev],
                      deltas |-> [st.deltas EXCEPT ![name] = <<recv, sent>>]],
                     n, S \ {name})

Reported(n) == {i \in Ifaces : n[i] # Absent}

\* The history of a name that was never reported, and the history h of a
\* name after a tick in which it had the entry old, reported data and got
\* the deltas d.
NoHist == [first |-> Absent, sum |-> <<0, 0>>, gap |-> FALSE,
           dec |-> <<FALSE, FALSE>>]

Record(h, old, data, d) ==
    IF data = Absent
    THEN IF h.first = Absent THEN h ELSE [h EXCEPT !.gap = TRUE]
    ELSE IF old = Absent
         THEN [NoHist EXCEPT !.first = data, !.sum = d]
         ELSE [h EXCEPT !.sum = <<h.sum[1] + d[1], h.sum[2] + d[2]>>,
                        !.dec = <<h.dec[1] \/ data[1] < old[1],
                                  h.dec[2] \/ data[2] < old[2]>>]

\* main.rs:70  cpu_usage as u16: truncation toward zero, saturating
CpuPercent(c) ==
    IF c <= 0 THEN 0
    ELSE IF c \div 10 > U16Max THEN U16Max ELSE c \div 10

\* main.rs:86, 96  ((bytes as f64 / 1024.0).min(1000.0) / 10.0) as u16.
\* bytes / 1024.0 is exact; the quotient by 10.0 is correctly rounded and is
\* either an integer or at least 1/10240 away from one, so its truncation is
\* that of the exact quotient.
KbCeiling == 1000

\* the scaling without its ceiling
NetPercent_NoCeiling(bytes) == bytes \div (1024 * 10)

NetPercent(bytes) ==
    LET capped == IF bytes < KbCeiling * 1024 THEN bytes ELSE KbCeiling * 1024
    IN  capped \div (1024 * 10)

\* the four arguments of Gauge::percent, in the order of main.rs:67-97
PercentArgs ==
    <<CpuPercent(cpu_usage), mem_percent, NetPercent(download_speed),
      NetPercent(upload_speed)>>

\* tui's Gauge::percent asserts percent <= 100
PercentOk(p) == p <= 100

(***************************************************************************)
(* The state machine.                                                      *)
(***************************************************************************)
\* main.rs:18-27, all of it succeeded
Init ==
    /\ pc = "sample"
    /\ tick = 0
    /\ renders = 0
    /\ cpu_usage = 0
    /\ total_mem = 0
    /\ used_mem = 0
    /\ mem_percent = 0
    /\ networks = [i \in Ifaces |-> Absent]
    /\ prev_network = [i \in Ifaces |-> Absent]
    /\ prevs = [i \in Ifaces |-> Absent]
    /\ deltas = [i \in Ifaces |-> Absent]
    /\ first_obs = {}
    /\ hist = [i \in Ifaces |-> NoHist]
    /\ download_speed = 0
    /\ upload_speed = 0
    /\ gauges = <<>>
    /\ last_event = "none"
    /\ input = <<>>
    /\ waited = 0
    /\ raw_mode = TRUE
    /\ alt_screen = TRUE
    /\ cursor_hidden = FALSE
    /\ result = "none"
    /\ err_at = "none"

\* an end of the loop body that also drops the counter map
EndIteration_DropsMap ==
    /\ cpu_usage' = 0
    /\ total_mem' = 0
    /\ used_mem' = 0
    /\ mem_percent' = 0
    /\ prevs' = [i \in Ifaces |-> Absent]
    /\ deltas' = [i \in Ifaces |-> Absent]
    /\ download_speed' = 0
    /\ upload_speed' = 0
    /\ gauges' = <<>>
    /\ prev_network' = [i \in Ifaces |-> Absent]
    /\ UNCHANGED <<networks, first_obs, hist, tick>>

\* main.rs:107, the end of the loop body: the locals of the iteration and
\* the temporaries of the draw closure are dropped
EndIteration ==
    /\ cpu_usage' = 0
    /\ total_mem' = 0
    /\ used_mem' = 0
    /\ mem_percent' = 0
    /\ prevs' = [i \in Ifaces |-> Absent]
    /\ deltas' = [i \in Ifaces |-> Absent]
    /\ download_speed' = 0
    /\ upload_speed' = 0
    /\ gauges' = <<>>
    /\ UNCHANGED <<networks, prev_network, first_obs, hist, tick>>

\* main.rs:30-52, with the sample drawn from Cs, Ms and Ns; the histories
\* are recorded when keep holds
SampleFrom(Cs, Ms, Ns, keep) ==
    /\ pc = "sample"
    /\ tick < MaxTicks
    /\ \E c \in Cs, m \in Ms, n \in Ns :
         LET st == NetLoop([map    |-> prev_network,
                            speeds |-> <<0, 0>>,
                            prevs  |-> [i \in Ifaces |-> Absent],
                            deltas |-> [i \in Ifaces |-> Absent]],
                           n, Reported(n))
         IN  /\ cpu_usage' = c
             /\ used_mem' = m[1]
             /\ total_mem' = m[2]
             /\ mem_percent' = MemPercent(m[1], m[2])
             /\ networks' = n
             /\ prev_network' = st.map
             /\ prevs' = st.prevs
             /\ deltas' = st.deltas
             /\ first_obs' = {i \in Reported(n) : prev_network[i] = Absent}
             /\ hist' = IF keep
                        THEN [i \in Ifaces |->
                                Record(hist[i], prev_network[i], n[i],
                                       st.deltas[i])]
                        ELSE hist
             /\ download_speed' = st.speeds[1]
             /\ upload_speed' = st.speeds[2]
    /\ tick' = tick + 1
    /\ pc' = "draw"
    /\ last_event' = "none"
    /\ UNCHANGED <<renders, gauges, inputVars, termVars, result, err_at>>

Sample == SampleFrom(CpuTenths, MemPairs, NetSamples, FALSE)

SampleBurst == SampleFrom(BurstCpu, BurstMem, NetSamples, FALSE)

SampleRuns == SampleFrom(BurstCpu, BurstMem, NetSamples, TRUE)

\* main.rs:54-98, the frame is drawn
DrawOk ==
    /\ pc = "draw"
    /\ \A k \in 1..4 : PercentOk(PercentArgs[k])
    /\ gauges' = PercentArgs
    /\ renders' = renders + 1
    /\ cursor_hidden' = TRUE
    /\ pc' = "poll"
    /\ waited' = 0
    /\ UNCHANGED <<sampleVars, last_event, input, raw_mode, alt_screen, result,
                   err_at>>

\* main.rs:70, 76, 86, 96: the first Gauge::percent whose argument exceeds
\* 100 panics inside the draw closure, and main unwinds
DrawPanic ==
    /\ pc = "draw"
    /\ \E k \in 1..4 :
         /\ ~PercentOk(PercentArgs[k])
         /\ \A j \in 1..(k - 1) : PercentOk(PercentArgs[j])
         /\ gauges' = SubSeq(PercentArgs, 1, k)
    /\ pc' = "panicked"
    /\ result' = "panic"
    /\ UNCHANGED <<sampleVars, renders, last_event, inputVars, termVars, err_at>>

\* main.rs:98, terminal.draw fails before it calls the closure
DrawResizeErr ==
    /\ pc = "draw"
    /\ pc' = "done"
    /\ result' = "err"
    /\ err_at' = "autoresize"
    /\ UNCHANGED <<sampleVars, renders, gauges, last_event, inputVars, termVars>>

\* main.rs:98, terminal.draw fails flushing the frame the closure built
DrawFlushErr ==
    /\ pc = "draw"
    /\ \A k \in 1..4 : PercentOk(PercentArgs[k])
    /\ gauges' = PercentArgs
    /\ pc' = "done"
    /\ result' = "err"
    /\ err_at' = "flush"
    /\ UNCHANGED <<sampleVars, renders, last_event, inputVars, termVars>>

\* The terminal receives the event ev while main waits in event::poll and
\* fewer than cap events are pending.  The first pending event wakes the
\* poll, t milliseconds into the wait.
Deliver(ev, cap) ==
    /\ pc = "poll"
    /\ Len(input) < cap
    /\ input' = Append(input, ev)
    /\ IF input = <<>>
       THEN \E t \in ArrivalTimes : waited' = t
       ELSE waited' = waited
    /\ UNCHANGED <<pc, sampleVars, renders, gauges, last_event, termVars,
                   result, err_at>>

\* an event arrives while none is pending
DeliverIdle == \E ev \in Events : Deliver(ev, 1)

\* an event arrives, possibly behind others that are still pending
DeliverBurst == \E ev \in Events : Deliver(ev, MaxInput)

\* main.rs:100, no event within the second: event::poll returns Ok(false)
PollTimeout ==
    /\ pc = "poll"
    /\ input = <<>>
    /\ waited' = PollTimeoutMs
    /\ pc' = "sample"
    /\ EndIteration
    /\ UNCHANGED <<renders, last_event, input, termVars, result, err_at>>

\* main.rs:100, an event is available: event::poll returns Ok(true)
PollReady ==
    /\ pc = "poll"
    /\ input # <<>>
    /\ pc' = "read"
    /\ UNCHANGED <<sampleVars, renders, gauges, last_event, inputVars, termVars,
                   result, err_at>>

\* main.rs:100, event::poll fails
PollErr ==
    /\ pc = "poll"
    /\ pc' = "done"
    /\ result' = "err"
    /\ err_at' = "poll"
    /\ UNCHANGED <<sampleVars, renders, gauges, last_event, inputVars, termVars>>

\* the key q read, but the loop goes on
ReadQuit_NoBreak ==
    /\ pc = "read"
    /\ Head(input) = KeyQ
    /\ input' = Tail(input)
    /\ last_event' = KeyQ
    /\ pc' = "sample"
    /\ EndIteration
    /\ UNCHANGED <<renders, waited, termVars, result, err_at>>

\* main.rs:101-104, the key q: break
ReadQuit ==
    /\ pc = "read"
    /\ Head(input) = KeyQ
    /\ input' = Tail(input)
    /\ last_event' = KeyQ
    /\ pc' = "teardown"
    /\ UNCHANGED <<sampleVars, renders, gauges, waited, termVars, result, err_at>>

\* any other event read, and the pending events behind it discarded
ReadOther_Flush ==
    /\ pc = "read"
    /\ Head(input) \in OtherEvents
    /\ input' = <<>>
    /\ last_event' = Head(input)
    /\ pc' = "sample"
    /\ EndIteration
    /\ UNCHANGED <<renders, waited, termVars, result, err_at>>

\* main.rs:101-106, any other event: next iteration
ReadOther ==
    /\ pc = "read"
    /\ Head(input) \in OtherEvents
    /\ input' = Tail(input)
    /\ last_event' = Head(input)
    /\ pc' = "sample"
    /\ EndIteration
    /\ UNCHANGED <<renders, waited, termVars, result, err_at>>

\* a failed event::read after which the loop polls again
ReadErr_Retry ==
    /\ pc = "read"
    /\ pc' = "poll"
    /\ err_at' = "read"
    /\ UNCHANGED <<sampleVars, renders, gauges, last_event, inputVars, termVars,
                   result>>

\* main.rs:101, event::read fails
ReadErr ==
    /\ pc = "read"
    /\ pc' = "done"
    /\ result' = "err"
    /\ err_at' = "read"
    /\ UNCHANGED <<sampleVars, renders, gauges, last_event, inputVars, termVars>>

\* main.rs:109-117
TeardownOk ==
    /\ pc = "teardown"
    /\ raw_mode' = FALSE
    /\ alt_screen' = FALSE
    /\ cursor_hidden' = FALSE
    /\ pc' = "done"
    /\ result' = "ok"
    /\ UNCHANGED <<sampleVars, renders, gauges, last_event, inputVars, err_at>>

\* main.rs:109, disable_raw_mode fails
TeardownRawErr ==
    /\ pc = "teardown"
    /\ pc' = "done"
    /\ result' = "err"
    /\ err_at' = "disable_raw_mode"
    /\ UNCHANGED <<sampleVars, renders, gauges, last_event, inputVars, termVars>>

\* main.rs:110-114, leaving the alternate screen fails
TeardownScreenErr ==
    /\ pc = "teardown"
    /\ raw_mode' = FALSE
    /\ pc' = "done"
    /\ result' = "err"
    /\ err_at' = "leave_alternate_screen"
    /\ UNCHANGED <<sampleVars, renders, gauges, last_event, inputVars,
                   alt_screen, cursor_hidden>>

\* main.rs:115, show_cursor fails
TeardownCursorErr ==
    /\ pc = "teardown"
    /\ raw_mode' = FALSE
    /\ alt_screen' = FALSE
    /\ pc' = "done"
    /\ result' = "err"
    /\ err_at' = "show_cursor"
    /\ UNCHANGED <<sampleVars, renders, gauges, last_event, inputVars,
                   cursor_hidden>>

Next ==
    \/ Sample
    \/ DrawOk
    \/ DrawPanic
    \/ DrawResizeErr
    \/ DrawFlushErr
    \/ DeliverIdle
    \/ PollTimeout
    \/ PollReady
    \/ PollErr
    \/ ReadQuit
    \/ ReadOther
    \/ ReadErr
    \/ TeardownOk
    \/ TeardownRawErr
    \/ TeardownScreenErr
    \/ TeardownCursorErr

Spec == Init /\ [][Next]_vars

\* the same program with a lighter sample and bursts of input
NextBurst ==
    \/ SampleBurst
    \/ DrawOk
    \/ DrawPanic
    \/ DrawResizeErr
    \/ DrawFlushErr
    \/ DeliverBurst
    \/ PollTimeout
    \/ PollReady
    \/ PollErr
    \/ ReadQuit
    \/ ReadOther
    \/ ReadErr
    \/ TeardownOk
    \/ TeardownRawErr
    \/ TeardownScreenErr
    \/ TeardownCursorErr

SpecBurst == Init /\ [][NextBurst]_vars

\* the same program with a lighter sample and the histories recorded
NextRuns ==
    \/ SampleRuns
    \/ DrawOk
    \/ DrawPanic
    \/ DrawResizeErr
    \/ DrawFlushErr
    \/ DeliverIdle
    \/ PollTimeout
    \/ PollReady
    \/ PollErr
    \/ ReadQuit
    \/ ReadOther
    \/ ReadErr
    \/ TeardownOk
    \/ TeardownRawErr
    \/ TeardownScreenErr
    \/ TeardownCursorErr

SpecRuns == Init /\ [][NextRuns]_vars


(***************************************************************************)
(* Helpers of the properties.                                              *)
(***************************************************************************)
RECURSIVE SumOver(_, _, _)
SumOver(S, f, k) ==
    IF S = {} THEN 0
    ELSE LET i == CHOOSE j \in S : TRUE
         IN  f[i][k] + SumOver(S \ {i}, f, k)

Max0(x) == IF x > 0 THEN x ELSE 0

\* a Sample step: the counters of a tick are read and folded into the map
SampleStep == pc = "sample" /\ pc' = "draw"

\* the tick has sampled and its locals are still alive
InTick == pc \in {"draw", "poll", "read"}

\* byte counts at which the scaling of the network gauges is probed
ByteProbes == {0, 1, 500, 10239, 10240, 512000, 1023999, 1024000, 2048000}

(***************************************************************************)
(* C1.  Every received and transmitted delta computed in a tick is >= 0,   *)
(* and when a reported total is lower than the stored baseline (a counter  *)
(* reset) the delta of that counter is exactly 0.                          *)
(***************************************************************************)
C1_DeltasNeverNegative ==
    \A i \in Ifaces :
        deltas[i] # Absent =>
            \A k \in 1..2 :
                /\ deltas[i][k] >= 0
                /\ networks[i][k] < prevs[i][k] => deltas[i][k] = 0

\* a tick in which eth0's received total fell from 1500 to 1000
C1_Witness ==
    /\ deltas["eth0"] # Absent
    /\ prevs["eth0"] = <<1500, 250>>
    /\ networks["eth0"] = <<1000, 200>>
    /\ deltas["eth0"] = <<0, 0>>

(***************************************************************************)
(* C2.  In the tick that first observes an interface (no entry in          *)
(* prev_network) its deltas are (0, 0) whatever it reports and its totals  *)
(* become its baseline; in the following tick its deltas are the movement  *)
(* since that baseline.                                                    *)
(***************************************************************************)
C2_FirstObservationIsZero ==
    [][SampleStep =>
         \A i \in Ifaces :
            networks'[i] # Absent =>
               /\ prev_network[i] = Absent =>
                     /\ deltas'[i] = <<0, 0>>
                     /\ prev_network'[i] = networks'[i]
               /\ i \in first_obs =>
                     deltas'[i] = <<Max0(networks'[i][1] - networks[i][1]),
                                    Max0(networks'[i][2] - networks[i][2])>>
      ]_vars

\* eth0 was first seen in tick 1 at (1000, 200) and reports (1500, 250) in
\* tick 2
C2_Witness ==
    /\ tick = 2
    /\ pc = "draw"
    /\ "eth0" \notin first_obs
    /\ prevs["eth0"] = <<1000, 200>>
    /\ networks["eth0"] = <<1500, 250>>
    /\ deltas["eth0"] = <<500, 50>>

(***************************************************************************)
(* C3.  Every value handed to Gauge::percent is an integer in 0..100, for  *)
(* every sample.                                                           *)
(***************************************************************************)
C3_GaugesWithinBounds ==
    \A k \in 1..Len(gauges) : gauges[k] \in 0..100

(***************************************************************************)
(* C4.  Whenever main returns after the loop ended, be it by the quit key  *)
(* or by an error of draw, poll or read, the terminal has left raw mode    *)
(* and the alternate screen.                                               *)
(***************************************************************************)
LoopErrors == {"autoresize", "flush", "poll", "read"}

C4_TerminalRestoredOnExit ==
    (pc = "done" /\ (result = "ok" \/ err_at \in LoopErrors)) =>
        (~raw_mode /\ ~alt_screen)

C6_IdenticalCountersGiveZero ==
    [][(SampleStep /\ tick >= 1 /\ networks' = networks) =>
          /\ \A i \in Ifaces : deltas'[i] \in {Absent, <<0, 0>>}
          /\ download_speed' = 0
          /\ upload_speed' = 0
      ]_vars

\* both interfaces report in tick 2 what they reported in tick 1
C6_Witness ==
    /\ tick = 2
    /\ pc = "draw"
    /\ first_obs = {}
    /\ \A i \in Ifaces : networks[i] # Absent /\ prevs[i] = networks[i]
    /\ download_speed = 0
    /\ upload_speed = 0

(***************************************************************************)
(* C7.  In every tick download_speed is the sum of the received deltas and *)
(* upload_speed the sum of the transmitted deltas over exactly the         *)
(* interfaces reported in that tick; a single interface going              *)
(* (1000, 200) -> (1500, 250) gives 500 and 50.                            *)
(***************************************************************************)
C7_SpeedsAreSumsOfDeltas ==
    InTick =>
        LET R == Reported(networks)
            d == [i \in R |-> <<Max0(networks[i][1] - prevs[i][1]),
                                Max0(networks[i][2] - prevs[i][2])>>]
        IN  /\ download_speed = SumOver(R, d, 1)
            /\ upload_speed = SumOver(R, d, 2)
            /\ (R = {"eth0"} /\ prevs["eth0"] = <<1000, 200>>
                /\ networks["eth0"] = <<1500, 250>>)
               => (download_speed = 500 /\ upload_speed = 50)

\* two interfaces with different movements in one tick
C7_Witness ==
    /\ pc = "draw"
    /\ deltas["eth0"] = <<500, 50>>
    /\ deltas["lo"] = <<2047500, 1023950>>
    /\ download_speed = 2048000
    /\ upload_speed = 1024000

(***************************************************************************)
(* C8.  A network gauge is the byte count of the tick divided by 1024,     *)
(* capped at 1000, divided by 10 and truncated: 0 bytes give 0, 1,024,000  *)
(* bytes or more give exactly 100, and the gauge never decreases when the  *)
(* byte count grows.                                                       *)
(***************************************************************************)
NetGaugeOk(g, bytes) ==
    LET capped == IF bytes > 1024000 THEN 1024000 ELSE bytes
    IN  /\ g * 10240 <= capped
        /\ capped < (g + 1) * 10240
        /\ bytes = 0 => g = 0
        /\ bytes >= 1024000 => g = 100
        /\ \A b \in ByteProbes :
              /\ b <= bytes => NetPercent(b) <= g
              /\ b >= bytes => NetPercent(b) >= g

C8_NetGaugeScaling ==
    /\ Len(gauges) >= 3 => NetGaugeOk(gauges[3], download_speed)
    /\ Len(gauges) >= 4 => NetGaugeOk(gauges[4], upload_speed)

\* 2,048,000 bytes received in one tick (2000 KB) are drawn as 100
C8_Witness ==
    /\ Len(gauges) = 4
    /\ download_speed = 2048000
    /\ gauges[3] = 100
    /\ upload_speed = 1024000
    /\ gauges[4] = 100

(***************************************************************************)
(* C9.  With total_mem > 0 the memory gauge is used_mem / total_mem * 100  *)
(* rounded to the nearest integer and clamped to 0..100.                   *)
(***************************************************************************)
Clamp100(x) == IF x < 0 THEN 0 ELSE IF x > 100 THEN 100 ELSE x

\* n / d rounded to the nearest integer, for n >= 0 and d > 0
RoundDiv(n, d) == (2 * n + d) \div (2 * d)

C9_MemoryGaugeIsRoundedRatio ==
    (Len(gauges) >= 2 /\ total_mem > 0) =>
        gauges[2] = Clamp100(RoundDiv(used_mem * 100, total_mem))

(***************************************************************************)
(* C10.  The cpu gauge is cpu_usage rounded to the nearest integer and     *)
(* clamped to 0..100.                                                      *)
(***************************************************************************)
C10_CpuGaugeIsRounded ==
    Len(gauges) >= 1 =>
        gauges[1] = Clamp100(IF cpu_usage < 0 THEN 0
                             ELSE RoundDiv(cpu_usage, 10))


(***************************************************************************)
(* C11.  In a tick that reports an interface which has an entry, its       *)
(* deltas are max(0, reported - stored), and the entry of every reported   *)
(* interface is replaced by the totals of the tick, also when they are     *)
(* lower than the stored ones.                                             *)
(***************************************************************************)
C11_DeltaThenBaselineReplaced ==
    [][SampleStep =>
         \A i \in Ifaces :
            networks'[i] # Absent =>
               /\ prev_network'[i] = networks'[i]
               /\ prev_network[i] # Absent =>
                     deltas'[i] =
                        <<Max0(networks'[i][1] - prev_network[i][1]),
                          Max0(networks'[i][2] - prev_network[i][2])>>
      ]_vars

\* eth0 fell from (2049000, 1024200) to (1500, 250): zero deltas, and the
\* lower totals are the new entry
C11_Witness ==
    /\ pc = "draw"
    /\ prevs["eth0"] = <<2049000, 1024200>>
    /\ networks["eth0"] = <<1500, 250>>
    /\ deltas["eth0"] = <<0, 0>>
    /\ prev_network["eth0"] = <<1500, 250>>

(***************************************************************************)
(* C12.  Unless the quit key arrives, the next tick begins only after the  *)
(* whole timeout of the input wait has elapsed, also when another event    *)
(* arrives during the wait.                                                *)
(***************************************************************************)
C12_NextTickAfterFullTimeout ==
    (pc = "sample" /\ tick >= 1) => waited = PollTimeoutMs

(***************************************************************************)
(* C13.  The loop stops running only when the key q is read or when draw,  *)
(* poll or read returns an error; a timeout and any other event lead to    *)
(* the next tick.                                                          *)
(***************************************************************************)
Running == {"sample", "draw", "poll", "read"}

C13_LeavesRunningOnlyOnQuitOrError ==
    [][/\ (pc \in Running /\ pc' \notin Running) =>
             \/ pc = "read" /\ Head(input) = KeyQ /\ last_event' = KeyQ
             \/ err_at' \in LoopErrors
       /\ (pc = "poll" /\ waited' = PollTimeoutMs) => pc' = "sample"
       /\ (pc = "read" /\ Head(input) \in OtherEvents /\ err_at' = "none")
             => pc' = "sample"
      ]_vars

(***************************************************************************)
(* C14.  An error of draw, poll or read ends the session without retry:    *)
(* main returns the error, and no sample, map update, render or poll       *)
(* follows.                                                                *)
(***************************************************************************)
C14_BackendErrorEndsSession ==
    [][/\ (err_at = "none" /\ err_at' \in LoopErrors) =>
             /\ pc' = "done"
             /\ result' = "err"
             /\ UNCHANGED <<tick, renders, prev_network>>
       /\ err_at \in LoopErrors => UNCHANGED vars
      ]_vars

\* event::read failed in the second tick
C14_Witness ==
    /\ pc = "done"
    /\ result = "err"
    /\ err_at = "read"
    /\ tick = 2
    /\ renders = 2

(***************************************************************************)
(* C15.  Ticks are sequential and run sample, map update, render, input    *)
(* wait in this order: the frame of tick N shows the sample of tick N and  *)
(* deltas against the entries left by tick N - 1, the map holds the totals *)
(* of tick N before that frame is drawn, and only the sampling step        *)
(* changes the map.                                                        *)
(***************************************************************************)
C15_TicksAreSequential ==
    [][/\ pc = "sample" => (pc' = "draw" /\ tick' = tick + 1 /\ renders = tick)
       /\ pc = "draw" => pc' \in {"poll", "done", "panicked"}
       /\ pc = "poll" => pc' \in {"poll", "read", "sample", "done"}
       /\ pc = "read" => pc' \in {"sample", "teardown", "done"}
       /\ pc # "sample" =>
             UNCHANGED <<prev_network, networks, tick>>
       /\ SampleStep =>
             LET R    == Reported(networks')
                 base == [i \in R |-> IF prev_network[i] = Absent
                                      THEN networks'[i] ELSE prev_network[i]]
                 d    == [i \in R |->
                            <<Max0(networks'[i][1] - base[i][1]),
                              Max0(networks'[i][2] - base[i][2])>>]
             IN  /\ download_speed' = SumOver(R, d, 1)
                 /\ upload_speed' = SumOver(R, d, 2)
                 /\ \A i \in R : prev_network'[i] = networks'[i]
       /\ (pc = "draw" /\ pc' = "poll") =>
             /\ renders' = tick
             /\ gauges' = <<CpuPercent(cpu_usage), mem_percent,
                            NetPercent(download_speed),
                            NetPercent(upload_speed)>>
             /\ UNCHANGED localVars
      ]_vars

\* the second frame shows the second sample against the first baseline
C15_Witness ==
    /\ tick = 2
    /\ pc = "poll"
    /\ renders = 2
    /\ cpu_usage = 734
    /\ <<used_mem, total_mem>> = <<8, 16>>
    /\ prevs["eth0"] = <<1000, 200>>
    /\ networks = [i \in Ifaces |-> IF i = "eth0" THEN <<2049000, 1024200>>
                                    ELSE Absent]
    /\ prev_network["eth0"] = <<2049000, 1024200>>
    /\ gauges = <<73, 50, 100, 100>>

(***************************************************************************)
(* C16.  A tick leaves the entry of every interface it does not report     *)
(* unchanged and no entry is ever removed; an interface that reappears     *)
(* after an absence gets max(0, reported - stored when last seen) as its   *)
(* delta, not (0, 0).                                                      *)
(***************************************************************************)
C16_StaleEntriesAreKept ==
    [][\A i \in Ifaces :
          /\ prev_network[i] # Absent => prev_network'[i] # Absent
          /\ SampleStep =>
                /\ networks'[i] = Absent => prev_network'[i] = prev_network[i]
                /\ (networks[i] = Absent /\ prev_network[i] # Absent
                    /\ networks'[i] # Absent) =>
                        deltas'[i] =
                           <<Max0(networks'[i][1] - prev_network[i][1]),
                             Max0(networks'[i][2] - prev_network[i][2])>>
      ]_vars

\* eth0: (1000, 200) in tick 1, not reported in tick 2, (1500, 250) in tick 3
C16_Witness ==
    /\ tick = 3
    /\ pc = "draw"
    /\ hist["eth0"].first = <<1000, 200>>
    /\ hist["eth0"].gap
    /\ prevs["eth0"] = <<1000, 200>>
    /\ networks["eth0"] = <<1500, 250>>
    /\ deltas["eth0"] = <<500, 50>>

(***************************************************************************)
(* C17.  When total_mem is 0 the memory gauge of the tick is 0 for every   *)
(* used_mem, and the tick does not crash on it.                            *)
(***************************************************************************)
C17_ZeroTotalGivesZeroGauge ==
    total_mem = 0 =>
        /\ mem_percent = 0
        /\ Len(gauges) >= 2 => gauges[2] = 0
        /\ ~(pc = "panicked" /\ Len(gauges) = 2)

(***************************************************************************)
(* C18.  Input is checked once per tick, right after the render, and one   *)
(* event at most is read per tick; once the quit key has been delivered no *)
(* further tick runs, whatever events were delivered before it.            *)
(***************************************************************************)
\* the position of the quit key among the pending events, 0 when it is not
\* pending
QPos ==
    IF \E k \in 1..Len(input) : input[k] = KeyQ
    THEN CHOOSE k \in 1..Len(input) :
             input[k] = KeyQ /\ \A j \in 1..(k - 1) : input[j] # KeyQ
    ELSE 0

OneReadPerTick ==
    /\ pc' = "read" => pc = "poll"
    /\ pc = "read" => pc' \in {"sample", "teardown", "done"}
    /\ Len(input') >= Len(input) - 1
    /\ Len(input') < Len(input) => pc = "read"

Owed == IF QPos = 0 THEN 0 ELSE (QPos - 1) + (IF pc = "sample" THEN 1 ELSE 0)

C19_DeltasTelescope ==
    \A i \in Ifaces :
        (hist[i].first # Absent /\ ~hist[i].gap) =>
            \A k \in 1..2 :
                ~hist[i].dec[k] =>
                    hist[i].sum[k] = networks[i][k] - hist[i].first[k]

\* eth0 reported 1000, 1500, 2049000 received bytes in three ticks
C19_Witness ==
    /\ tick = 3
    /\ hist["eth0"] = [first |-> <<1000, 200>>, sum |-> <<2048000, 1024000>>,
                       gap |-> FALSE, dec |-> <<FALSE, FALSE>>]
    /\ prevs["eth0"] = <<1500, 250>>
    /\ networks["eth0"] = <<2049000, 1024200>>

====
